---- MODULE Spec2Model ----
(***************************************************************************)
(* The notebooks of the Pipeline tutorial (Lessons 4, 6, 7, 11 and the     *)
(* "Creating a Pipeline" lesson) as a state machine.  The state is the     *)
(* data set the research backend serves (daily bars per asset, the         *)
(* membership of the built-in QTradableStocksUS universe and the           *)
(* Morningstar fundamentals), the cell that ran last, the table its        *)
(* run_pipeline call returned, the run_pipeline requests in flight, the    *)
(* compute calls the engine made to custom factors and the outputs of the  *)
(* cell that runs statement by statement.  An action is one code cell that calls run_pipeline, *)
(* or, where a claim is about the inside of a run, one step of it: the     *)
(* request, one compute call, the response.  The pipeline terms            *)
(* the cells build (SimpleMovingAverage, AverageDollarVolume, latest, top, *)
(* bottom, percentile_between, the comparison and boolean operators, mask  *)
(* and screen) are operators that compute one day's value for every asset. *)
(***************************************************************************)
EXTENDS Integers, Sequences, FiniteSets, TLC

VARIABLES bars, universe, fundamentals, cell, result, flight, calls, outputs

vars == <<bars, universe, fundamentals, cell, result, flight, calls, outputs>>

---------------------------------------------------------------------------
(* Bounds of the model. *)

\* number of securities in the database (8520 in the captured runs)
NAssets == 3

\* the N of top(N) / bottom(N): 50 in the notebooks, which needs more than
\* 50 securities to be exercised; the model ranks with a smaller N
TopN == 2

(* Program constants. *)

\* window_length=30 and window_length=60 of the notebooks, in model days:
\* a short and a long trailing window
ShortWindow == 2
LongWindow == 3

\* StdDev(..., window_length=5) of the momentum pipeline, in model days
StdWindow == 2

\* latest_close > 90 (Lesson 6)
PriceThreshold == 90

\* dollar_volume > 20000000 (Lesson 7); the model counts volume in units of
\* 100,000 shares, so dollar volume is in units of $100,000
DollarVolumeThreshold == 200

Assets == 1..NAssets

\* the days the data set has bars for
NDays == LongWindow
Days == 1..NDays

\* '2017-12-27', the day every single-day run is made for: the day after the
\* last bar; '2017-11-27', the first day of the multi-day runs, which span
\* three model days
Dec27 == NDays + 1
Nov27 == NDays - 1

\* a missing value of the raw data
NaN == -1

PriceLevels == {60, 120}
VolumeLevels == {2, 4}

---------------------------------------------------------------------------
(* Numeric values of factors: a fraction <<num, den>> with den >= 0.       *)
(* den = 0 is a non-finite float: <<0, 0>> is NaN, <<1, 0>> and <<-1, 0>>  *)
(* are +inf and -inf.                                                      *)

NaNv == <<0, 0>>

IsNaN(v) == v = NaNv

Abs(x) == IF x < 0 THEN -x ELSE x

Sign(x) == IF x > 0 THEN 1 ELSE IF x < 0 THEN -1 ELSE 0

RECURSIVE Gcd(_, _)
Gcd(x, y) == IF y = 0 THEN x ELSE Gcd(y, x % y)

\* the canonical form of a fraction
Norm(v) ==
    IF v[2] = 0 THEN <<Sign(v[1]), 0>>
    ELSE LET g == Gcd(Abs(v[1]), v[2]) IN <<v[1] \div g, v[2] \div g>>

\* a raw number (or the missing value) as a float
Float(x) == IF x = NaN THEN NaNv ELSE <<x, 1>>

\* float subtraction: NaN if either side is NaN, or inf - inf
FSub(a, b) ==
    IF IsNaN(a) \/ IsNaN(b) THEN NaNv
    ELSE IF a[2] = 0 /\ b[2] = 0 THEN (IF a[1] = b[1] THEN NaNv ELSE a)
    ELSE IF a[2] = 0 THEN a
    ELSE IF b[2] = 0 THEN <<-b[1], 0>>
    ELSE Norm(<<a[1] * b[2] - b[1] * a[2], a[2] * b[2]>>)

\* float division: x/0 is +-inf, 0/0 and inf/inf are NaN
FDiv(a, b) ==
    IF IsNaN(a) \/ IsNaN(b) THEN NaNv
    ELSE IF a[2] = 0 /\ b[2] = 0 THEN NaNv
    ELSE IF b[2] = 0 THEN <<0, 1>>
    ELSE IF b[1] = 0 THEN <<Sign(a[1]), 0>>
    ELSE IF a[2] = 0 THEN <<a[1] * Sign(b[1]), 0>>
    ELSE Norm(<<a[1] * b[2] * Sign(b[1]), a[2] * Abs(b[1])>>)

\* float comparisons: every comparison with NaN is False
FLess(a, b) == ~IsNaN(a) /\ ~IsNaN(b) /\ a[1] * b[2] < b[1] * a[2]

FLeq(a, b) ==
    /\ ~IsNaN(a) /\ ~IsNaN(b)
    /\ IF a[2] = 0 /\ b[2] = 0 THEN a[1] <= b[1] ELSE a[1] * b[2] <= b[1] * a[2]

FEq(a, b) == FLeq(a, b) /\ FLeq(b, a)

---------------------------------------------------------------------------
(* Trailing windows.  A term computed for day `today` sees the bars of the *)
(* days before it: the row of 2017-12-27 holds the close of 2017-12-26.    *)

\* one cell of a data column; no bar exists outside the data set's days
Bar(field, a, d) == IF d \in Days THEN bars[field][a][d] ELSE NaN

\* the M x N input of a window_length=n term, one asset's column of it:
\* n rows, oldest first, the last row being the most recent bar
Window(field, a, today, n) == [i \in 1..n |-> Bar(field, a, today - n - 1 + i)]

RECURSIVE NanSumTo(_, _)
NanSumTo(w, k) ==
    IF k = 0 THEN 0
    ELSE NanSumTo(w, k - 1) + (IF w[k] = NaN THEN 0 ELSE w[k])

\* numpy.nansum over one column
NanSum(w) == NanSumTo(w, Len(w))

NanCount(w) == Cardinality({i \in 1..Len(w) : w[i] # NaN})

\* numpy.nanmean over one column: NaN when every row is NaN
NanMean(w) == IF NanCount(w) = 0 THEN NaNv ELSE Norm(<<NanSum(w), NanCount(w)>>)

\* the value a masked-out asset gets from a term computed under a mask
Masked(mask, a, v) == IF mask[a] THEN v ELSE NaNv

\* a day's values, one per asset, computed once and kept as a table
Slice(f) == IF f = f THEN f ELSE f

\* no mask: every asset is considered
AllAssets == [a \in Assets |-> TRUE]

\* USEquityPricing.<field>.latest
Latest(field, today) == Slice([a \in Assets |-> Float(Window(field, a, today, 1)[1])])

SimpleMovingAverage(field, n, mask, today) ==
    Slice([a \in Assets |-> Masked(mask, a, NanMean(Window(field, a, today, n)))])

\* element-wise close * volume: NaN where either is NaN
DollarWindow(a, today, n) ==
    LET c == Window("close", a, today, n)
        v == Window("volume", a, today, n)
    IN  [i \in 1..n |-> IF c[i] = NaN \/ v[i] = NaN THEN NaN ELSE c[i] * v[i]]

\* AverageDollarVolume: nansum(close * volume) / len(close)
AverageDollarVolume(n, mask, today) ==
    Slice([a \in Assets |-> Masked(mask, a, Norm(<<NanSum(DollarWindow(a, today, n)), n>>))])

---------------------------------------------------------------------------
(* Filters: one boolean per asset. *)

\* factor > c and factor >= c, c a number
Greater(f, c) == Slice([a \in Assets |-> FLess(<<c, 1>>, f[a])])

GreaterEq(f, c) == Slice([a \in Assets |-> FLeq(<<c, 1>>, f[a])])

\* f & g, f | g, ~f
And(f, g) == Slice([a \in Assets |-> f[a] /\ g[a]])

Or(f, g) == Slice([a \in Assets |-> f[a] \/ g[a]])

Not(f) == Slice([a \in Assets |-> ~f[a]])

\* the assets a ranking or a percentile considers: inside the mask, not NaN
Ranked(f, mask) == {a \in Assets : mask[a] /\ ~IsNaN(f[a])}

\* b is ranked before a: ordinal ranking, ties go to the asset that comes
\* first; a descending ranking is the ascending ranking of the negated data
Before(f, b, a, ascending) ==
    LET lt == IF ascending THEN FLess(f[b], f[a]) ELSE FLess(f[a], f[b])
    IN  lt \/ (FEq(f[a], f[b]) /\ b < a)

\* factor.rank(ascending, mask): 1-based, 0 standing for the NaN rank of an
\* asset that is not ranked
Rank(f, mask, ascending) ==
    LET ranked == Ranked(f, mask)
    IN  Slice([a \in Assets |->
                  IF a \in ranked
                  THEN 1 + Cardinality({b \in ranked : Before(f, b, a, ascending)})
                  ELSE 0])

\* a top that ranks every asset and applies the mask to the result
TopThenMask(f, n, mask) ==
    LET r == Rank(f, AllAssets, FALSE)
    IN  Slice([a \in Assets |-> mask[a] /\ r[a] >= 1 /\ r[a] <= n])

\* factor.top(N, mask): rank(ascending=False, mask) <= N
Top(f, n, mask) ==
    LET r == Rank(f, mask, FALSE) IN Slice([a \in Assets |-> r[a] >= 1 /\ r[a] <= n])

\* factor.bottom(N, mask): rank(ascending=True, mask) <= N
Bottom(f, n, mask) ==
    LET r == Rank(f, mask, TRUE) IN Slice([a \in Assets |-> r[a] >= 1 /\ r[a] <= n])

\* float addition and multiplication by the fraction p/q (p, q > 0)
FAdd(a, b) == FSub(a, FSub(<<0, 1>>, b))

FScale(v, p, q) ==
    IF v[2] = 0 THEN v ELSE Norm(<<v[1] * p, v[2] * q>>)

\* numpy.nanpercentile(data, q) with linear interpolation, over the ranked
\* values: NaN when there is none
NanPercentile(f, mask, q) ==
    LET k == Cardinality(Ranked(f, mask))
        r == Rank(f, mask, TRUE)
        s(j) == f[CHOOSE a \in Assets : r[a] = j]
        h == q * (k - 1)
        j == (h \div 100) + 1
        fr == h % 100
    IN  IF k = 0 THEN NaNv
        ELSE IF fr = 0 THEN s(j)
        ELSE FAdd(s(j), FScale(FSub(s(j + 1), s(j)), fr, 100))

\* factor.percentile_between(min, max, mask):
\* (lower_bound <= data) & (data <= upper_bound), data NaN outside the mask
PercentileBetween(f, min, max, mask) ==
    LET lo == NanPercentile(f, mask, min)
        hi == NanPercentile(f, mask, max)
    IN  Slice([a \in Assets |-> mask[a] /\ FLeq(lo, f[a]) /\ FLeq(f[a], hi)])

---------------------------------------------------------------------------
(* Pipelines and run_pipeline. *)

\* Pipeline(columns=..., screen=...) evaluated for one day: the columns are
\* a function from column name to that day's values
Pipeline(columns, screen) == [columns |-> columns, screen |-> screen]

\* Pipeline() without a screen emits every asset; without columns, none
NoScreen == AllAssets

NoColumns == [n \in {} |-> AllAssets]

\* the days a notebook asks run_pipeline for
RunDates == Nov27..Dec27

\* run_pipeline that also returns the rows of the day before start
RunPipelineEarly(p, start, end) ==
    LET rows == {r \in ((start - 1)..end) \X Assets : r[1] \in DOMAIN p /\ p[r[1]].screen[r[2]]}
        names == DOMAIN p[start].columns
    IN  [columns |-> names,
         rows |-> rows,
         value |-> [r \in rows |-> [n \in names |-> p[r[1]].columns[n][r[2]]]]]

\* run_pipeline(p, start, end): a table indexed by (date, asset) with one
\* column per entry of p's columns, holding the rows the screen passes.
\* p[d] is the pipeline's columns and screen computed for day d.
RunPipeline(p, start, end) ==
    LET day == Slice([d \in start..end |-> p[d]])
        rows == {r \in (start..end) \X Assets : day[r[1]].screen[r[2]]}
        names == DOMAIN day[start].columns
    IN  [columns |-> names,
         rows |-> rows,
         value |-> [r \in rows |-> [n \in names |-> day[r[1]].columns[n][r[2]]]]]

\* a window array that reaches one day past today
WindowArrayAhead(field, today, n, assets) ==
    [i \in 1..n |-> [a \in assets |-> Bar(field, a, today - n + 1 + i)]]

\* the M x N array a CustomFactor's compute receives for one input column
WindowArray(field, today, n, assets) ==
    [i \in 1..n |-> [a \in assets |-> Bar(field, a, today - n - 1 + i)]]

---------------------------------------------------------------------------
(* Lesson 7, "Custom Factors". *)

\* the square root of a fraction, kept exact: [sqrt |-> v] is sqrt(v)
FSqrt(v) == IF IsNaN(v) THEN NaNv ELSE [sqrt |-> v]

\* one column of an M x N array, as a sequence of M raw values
ColumnOf(values, a) == [i \in 1..Len(values) |-> values[i][a]]

\* numpy.nanstd over one column: sqrt(mean(x^2) - mean(x)^2) over the rows
\* that are not NaN, NaN when there is none
NanStd(w) ==
    LET n == NanCount(w)
        sq == [i \in 1..Len(w) |-> IF w[i] = NaN THEN NaN ELSE w[i] * w[i]]
    IN  IF n = 0 THEN NaNv
        ELSE FSqrt(Norm(<<n * NanSum(sq) - NanSum(w) * NanSum(w), n * n>>))

\* StdDev.compute: out[:] = numpy.nanstd(values, axis=0)
StdDevCompute(today, assets, values) ==
    [a \in assets |-> NanStd(ColumnOf(values, a))]

\* StdDev(inputs=[USEquityPricing.close], window_length=n)
StdDev(n, today) == StdDevCompute(today, Assets, WindowArray("close", today, n, Assets))

\* ThirtyDayMeanDifference.compute: out[:] = numpy.nanmean(close - open, axis=0)
MeanDifferenceCompute(today, assets, close, open) ==
    [a \in assets |->
        NanMean([i \in 1..Len(close) |->
                    IF close[i][a] = NaN \/ open[i][a] = NaN THEN NaN
                    ELSE close[i][a] - open[i][a]])]

---------------------------------------------------------------------------
(* Lesson 7, "Further Example": the Momentum custom factor. *)

\* Momentum.compute dividing by the second row: close[-1] / close[1]
MomentumComputeSecondRow(today, assets, close) ==
    [a \in assets |-> FDiv(Float(close[Len(close)][a]), Float(close[2][a]))]

\* Momentum.compute: out[:] = close[-1] / close[0]
MomentumCompute(today, assets, close) ==
    [a \in assets |-> FDiv(Float(close[Len(close)][a]), Float(close[1][a]))]

\* Momentum(window_length=n), inputs = [USEquityPricing.close]
Momentum(n, today) == MomentumCompute(today, Assets, WindowArray("close", today, n, Assets))

\* positive_momentum combining the two comparisons with | instead of &
positive_momentum_or(today) ==
    Or(GreaterEq(Momentum(ShortWindow, today), 0), GreaterEq(Momentum(LongWindow, today), 0))

\* positive_momentum = ((thirty_day_momentum >= 0) & (sixty_day_momentum >= 0))
positive_momentum(today) ==
    And(GreaterEq(Momentum(ShortWindow, today), 0), GreaterEq(Momentum(LongWindow, today), 0))

\* StdDev(inputs=[USEquityPricing.close], window_length=5), Momentum(30),
\* Momentum(60): make_pipeline of the momentum cell
MomentumColumns(today) ==
    [n \in {"std dev", "thirty day momentum", "sixty day momentum"} |->
        IF n = "std dev" THEN StdDev(StdWindow, today)
        ELSE IF n = "thirty day momentum" THEN Momentum(ShortWindow, today)
        ELSE Momentum(LongWindow, today)]

MomentumPipeline ==
    [today \in RunDates |-> Pipeline(MomentumColumns(today), positive_momentum(today))]

\* the class defaults of ThirtyDayMeanDifference
MeanDifferenceInputs == <<"close", "open">>

MeanDifferenceWindow == ShortWindow

\* ThirtyDayMeanDifference(inputs=..., window_length=...)
ThirtyDayMeanDifference(inputs, n, today) ==
    MeanDifferenceCompute(today, Assets,
                          WindowArray(inputs[1], today, n, Assets),
                          WindowArray(inputs[2], today, n, Assets))

\* a constructor that keeps the class defaults whatever is given
ConstructDefaults(defaults, given) == defaults

\* the constructor of a CustomFactor subclass: an argument that is given
\* replaces the class default, an argument that is not given keeps it
Construct(defaults, given) ==
    [k \in DOMAIN defaults |-> IF k \in DOMAIN given THEN given[k] ELSE defaults[k]]

\* the class attributes of ThirtyDayMeanDifference
MeanDifferenceDefaults ==
    [inputs |-> MeanDifferenceInputs, window_length |-> MeanDifferenceWindow]

\* close_open_diff = ThirtyDayMeanDifference()
close_open_diff == Construct(MeanDifferenceDefaults, <<>>)

\* high_low_diff =
\*   ThirtyDayMeanDifference(inputs=[USEquityPricing.high, USEquityPricing.low])
high_low_diff == Construct(MeanDifferenceDefaults, [inputs |-> <<"high", "low">>])

\* make_pipeline of the "close-open diff" cell: ThirtyDayMeanDifference()
CloseOpenPipeline ==
    [today \in RunDates |->
        Pipeline([n \in {"close-open diff"} |->
                     ThirtyDayMeanDifference(close_open_diff.inputs,
                                             close_open_diff.window_length, today)],
                 NoScreen)]

\* make_pipeline of the "high-low diff" cell
HighLowPipeline ==
    [today \in RunDates |->
        Pipeline([n \in {"high-low diff"} |->
                     ThirtyDayMeanDifference(high_low_diff.inputs,
                                             high_low_diff.window_length, today)],
                 NoScreen)]

\* asset_ids: the ids of the assets a compute call is made for, in the order
\* of the columns of its input arrays
RECURSIVE AssetIds(_)
AssetIds(assets) ==
    IF assets = {} THEN <<>>
    ELSE LET last == CHOOSE a \in assets : \A b \in assets : b <= a
         IN  Append(AssetIds(assets \ {last}), last)

\* *inputs with the arrays in the reverse of the order of the inputs list
ComputeInputsReversed(inputs, n, today, assets) ==
    [k \in 1..Len(inputs) |-> WindowArray(inputs[Len(inputs) + 1 - k], today, n, assets)]

\* *inputs: one M x N array for each BoundColumn of the factor's inputs
\* list, in the order of the list
ComputeInputs(inputs, n, today, assets) ==
    [k \in 1..Len(inputs) |-> WindowArray(inputs[k], today, n, assets)]

\* the dates of a run served newest first
SessionsNewestFirst(start, end) == [i \in 1..(end - start + 1) |-> end - i + 1]

\* the dates a run from start to end computes, in the order it computes them
Sessions(start, end) == [i \in 1..(end - start + 1) |-> start + i - 1]

\* make_pipeline of "Creating a Pipeline": return Pipeline()
EmptyPipeline == [today \in RunDates |-> Pipeline(NoColumns, NoScreen)]

---------------------------------------------------------------------------
(* Arithmetic on factors: one float per asset. *)

\* f - g and f / g of two factors
Minus(f, g) == Slice([a \in Assets |-> FSub(f[a], g[a])])

Over(f, g) == Slice([a \in Assets |-> FDiv(f[a], g[a])])

---------------------------------------------------------------------------
(* Lesson 6, "Combining Filters". *)

\* high_dollar_volume = dollar_volume.percentile_between(95, 100)
L6_high_dollar_volume(today) ==
    PercentileBetween(AverageDollarVolume(LongWindow, AllAssets, today), 95, 100, AllAssets)

\* above_90 = latest_close > 90
above_90(today) == Greater(Latest("close", today), PriceThreshold)

\* tradeable_filter combining its operands with | instead of &
tradeable_filter_or(today) == Or(L6_high_dollar_volume(today), above_90(today))

\* tradeable_filter = high_dollar_volume & above_90
tradeable_filter(today) == And(L6_high_dollar_volume(today), above_90(today))

\* percent_difference = (mean_close_60 - mean_close_30) / mean_close_60
L6_percent_difference(today) ==
    LET mean_close_60 == SimpleMovingAverage("close", LongWindow, AllAssets, today)
        mean_close_30 == SimpleMovingAverage("close", ShortWindow, AllAssets, today)
    IN  Over(Minus(mean_close_60, mean_close_30), mean_close_60)

\* make_pipeline of Lesson 6 returning its Pipeline without the screen
L6_make_pipeline_unscreened ==
    [today \in RunDates |->
        Pipeline([n \in {"percent_difference", "close"} |->
                     IF n = "close" THEN Latest("close", today)
                     ELSE L6_percent_difference(today)],
                 NoScreen)]

\* make_pipeline of Lesson 6
L6_make_pipeline ==
    [today \in RunDates |->
        Pipeline([n \in {"percent_difference", "close"} |->
                     IF n = "close" THEN Latest("close", today)
                     ELSE L6_percent_difference(today)],
                 tradeable_filter(today))]

---------------------------------------------------------------------------
(* Lesson 7, "Masking Factors". *)

\* high_dollar_volume = (dollar_volume > 20000000)
L7_high_dollar_volume(today) ==
    Greater(AverageDollarVolume(LongWindow, AllAssets, today), DollarVolumeThreshold)

\* mean_close_60 and mean_close_30 built without the mask argument
L7_mean_close_unmasked(n, today) == SimpleMovingAverage("close", n, AllAssets, today)

\* SimpleMovingAverage(inputs=[USEquityPricing.close], window_length=n,
\*                     mask=high_dollar_volume)
L7_mean_close(n, today) ==
    SimpleMovingAverage("close", n, L7_high_dollar_volume(today), today)

\* percent_difference = (mean_close_30 - mean_close_60) / mean_close_60
L7_percent_difference(today) ==
    Over(Minus(L7_mean_close(ShortWindow, today), L7_mean_close(LongWindow, today)),
         L7_mean_close(LongWindow, today))

\* make_pipeline of the masked-factor cell: no screen is passed
L7_masked_make_pipeline ==
    [today \in RunDates |->
        Pipeline([n \in {"percent difference"} |-> L7_percent_difference(today)], NoScreen)]

---------------------------------------------------------------------------
(* Lesson 7, "Masking Filters". *)

\* dollar_volume = AverageDollarVolume(window_length=30)
L7_dollar_volume(today) == AverageDollarVolume(ShortWindow, AllAssets, today)

\* high_dollar_volume = dollar_volume.percentile_between(90,100)
L7_top_dollar_volume(today) ==
    PercentileBetween(L7_dollar_volume(today), 90, 100, AllAssets)

\* top_open_price built without the mask argument
top_open_price_unmasked(today) == Top(Latest("open", today), TopN, AllAssets)

\* top_open_price = USEquityPricing.open.latest.top(50, mask=high_dollar_volume)
top_open_price(today) ==
    Top(Latest("open", today), TopN, L7_top_dollar_volume(today))

\* high_close_price =
\*   USEquityPricing.close.latest.percentile_between(90, 100, mask=top_open_price)
high_close_price(today) ==
    PercentileBetween(Latest("close", today), 90, 100, top_open_price(today))

\* make_pipeline of the layered-mask cell: no columns, screen=high_close_price
L7_layered_make_pipeline ==
    [today \in RunDates |-> Pipeline(NoColumns, high_close_price(today))]

---------------------------------------------------------------------------
(* Lesson 11, "Putting It All Together". *)

\* a string value of the fundamentals is the sequence of its characters
StartsWith(s, prefix) ==
    Len(s) >= Len(prefix) /\ SubSeq(s, 1, Len(prefix)) = prefix

EndsWith(s, suffix) ==
    Len(s) >= Len(suffix) /\ SubSeq(s, Len(s) - Len(suffix) + 1, Len(s)) = suffix

\* matches('.* L[. ]?P.?$'): the string ends with " L", an optional "." or
\* " ", "P" and an optional last character
MatchesLP(s) ==
    \E t \in {0, 1}, m \in {0, 1} :
        LET n == Len(s)
        IN  /\ n >= 3 + m + t
            /\ s[n - t] = "P"
            /\ m = 1 => s[n - t - 1] \in {".", " "}
            /\ s[n - t - m - 1] = "L"
            /\ s[n - t - m - 2] = " "

\* the latest fundamentals of a listed common stock; a null entry is NaN
Clean ==
    [primary_share |-> TRUE,
     security_type |-> "ST00000001",
     is_depositary_receipt |-> FALSE,
     exchange_id |-> <<"N", "Y", "S">>,
     symbol |-> <<"A">>,
     standard_name |-> <<"A", " ", "I", "N", "C">>,
     limited_partnership |-> NaN,
     market_cap |-> 1]

\* securities that differ from it in one entry: a secondary share, a
\* preferred stock, a depositary receipt, an OTC listing, a when-issued
\* symbol, a limited partnership by name, one by its reference entry, an ETF
Odd ==
    {[Clean EXCEPT !.primary_share = FALSE],
     [Clean EXCEPT !.security_type = "ST00000002"],
     [Clean EXCEPT !.is_depositary_receipt = TRUE],
     [Clean EXCEPT !.exchange_id = <<"O", "T", "C", "P", "K">>],
     [Clean EXCEPT !.symbol = <<"A", ".", "W", "I">>],
     [Clean EXCEPT !.standard_name = <<"A", " ", "L", ".", "P", ".">>],
     [Clean EXCEPT !.limited_partnership = 1],
     [Clean EXCEPT !.market_cap = NaN]}

CleanFundamentals == [a \in Assets |-> Clean]

\* primary_share = IsPrimaryShare()
primary_share == Slice([a \in Assets |-> fundamentals[a].primary_share])

\* common_stock = Fundamentals.security_type.latest.eq('ST00000001')
common_stock == Slice([a \in Assets |-> fundamentals[a].security_type = "ST00000001"])

\* not_depositary = ~Fundamentals.is_depositary_receipt.latest
not_depositary == Not([a \in Assets |-> fundamentals[a].is_depositary_receipt])

\* not_otc = ~Fundamentals.exchange_id.latest.startswith('OTC')
not_otc ==
    Not([a \in Assets |-> StartsWith(fundamentals[a].exchange_id, <<"O", "T", "C">>)])

\* not_wi = ~Fundamentals.symbol.latest.endswith('.WI')
not_wi == Not([a \in Assets |-> EndsWith(fundamentals[a].symbol, <<".", "W", "I">>)])

\* not_lp_name = ~Fundamentals.standard_name.latest.matches('.* L[. ]?P.?$')
not_lp_name == Not([a \in Assets |-> MatchesLP(fundamentals[a].standard_name)])

\* not_lp_balance_sheet = Fundamentals.limited_partnership.latest.isnull()
not_lp_balance_sheet ==
    Slice([a \in Assets |-> fundamentals[a].limited_partnership = NaN])

\* have_market_cap = Fundamentals.market_cap.latest.notnull()
have_market_cap == Slice([a \in Assets |-> fundamentals[a].market_cap # NaN])

\* tradeable_stocks = (primary_share & common_stock & not_depositary & not_otc
\*                     & not_wi & not_lp_name & not_lp_balance_sheet & have_market_cap)
tradeable_stocks ==
    And(And(And(And(And(And(And(primary_share, common_stock), not_depositary), not_otc),
                    not_wi), not_lp_name), not_lp_balance_sheet), have_market_cap)

\* the Fundamentals fields tradeable_stocks reads
TradeableStocksFields ==
    {"security_type", "is_depositary_receipt", "exchange_id", "symbol",
     "standard_name", "limited_partnership", "market_cap"}

\* the fields Morningstar no longer supports (ZiplineDeprecationWarning)
DeprecatedFields == {"limited_partnership"}

\* base_universe = AverageDollarVolume(window_length=30, mask=tradeable_stocks)
\*                     .percentile_between(90, 100)
L11_base_universe(today) ==
    PercentileBetween(AverageDollarVolume(ShortWindow, tradeable_stocks, today),
                      90, 100, AllAssets)

\* make_pipeline of the cell that builds the base universe by hand
L11_base_make_pipeline ==
    [today \in RunDates |->
        Pipeline([n \in {"base universe"} |-> L11_base_universe(today)],
                 L11_base_universe(today))]

\* QTradableStocksUS(): the built-in filter; its membership is data the
\* platform serves
QTradableStocksUS == universe

\* base_universe = QTradableStocksUS()
base_universe == QTradableStocksUS

\* make_pipeline of the cell that shows the built-in universe
L11_universe_make_pipeline ==
    [today \in RunDates |->
        Pipeline([n \in {"QTradableStockUS"} |-> base_universe], base_universe)]

\* mean_30 and mean_60 built without the mask argument
L11_mean_unmasked(n, today) == SimpleMovingAverage("close", n, AllAssets, today)

\* SimpleMovingAverage(inputs=[USEquityPricing.close], window_length=n,
\*                     mask=base_universe)
L11_mean(n, today) == SimpleMovingAverage("close", n, base_universe, today)

\* percent_difference = (mean_30 - mean_60) / mean_60
L11_percent_difference(today) ==
    Over(Minus(L11_mean(ShortWindow, today), L11_mean(LongWindow, today)),
         L11_mean(LongWindow, today))

\* shorts = percent_difference.top(50)
shorts(today) == Top(L11_percent_difference(today), TopN, AllAssets)

\* longs built with top in place of bottom
longs_top(today) == Top(L11_percent_difference(today), TopN, AllAssets)

\* longs = percent_difference.bottom(50)
longs(today) == Bottom(L11_percent_difference(today), TopN, AllAssets)

\* securities_to_trade = (shorts | longs)
securities_to_trade(today) == Or(shorts(today), longs(today))

\* make_pipeline of the final cell returning its Pipeline without the screen
L11_make_pipeline_unscreened ==
    [today \in RunDates |->
        Pipeline([n \in {"longs", "shorts"} |->
                     IF n = "longs" THEN longs(today) ELSE shorts(today)],
                 NoScreen)]

\* make_pipeline of the final cell
L11_make_pipeline ==
    [today \in RunDates |->
        Pipeline([n \in {"longs", "shorts"} |->
                     IF n = "longs" THEN longs(today) ELSE shorts(today)],
                 securities_to_trade(today))]

---------------------------------------------------------------------------
(* The state machine. *)

\* the columns of USEquityPricing the notebooks read
Fields == {"close", "open", "high", "low", "volume"}

\* a data column that holds the same value for every asset and day
Flat(x) == [a \in Assets |-> [d \in Days |-> x]]

\* the histories of one asset's column that have a bar every day, or lack
\* only the first bar (a late listing), or have no bar at all
LateSeries(levels) ==
    {s \in [Days -> levels \cup {NaN}] :
        \/ \A d \in Days : s[d] = NaN
        \/ \A d \in Days : d > 1 => s[d] # NaN}

\* the table before any run
NoResult == [columns |-> {}, rows |-> {}, value |-> <<>>]

\* the cell `name` runs after the cell `prev` (the cells of a lesson run top
\* to bottom) and leaves the table its run_pipeline call returned
Ran(prev, name, start, end, table) ==
    /\ cell.name = prev
    /\ cell' = [name |-> name, start |-> start, end |-> end]
    /\ result' = table
    /\ UNCHANGED <<bars, universe, fundamentals, flight, calls, outputs>>

NoCell == [name |-> "none", start |-> 0, end |-> 0]

\* Lesson 7's custom factors run over close prices
InitMomentum ==
    /\ \E c \in [Assets -> LateSeries(PriceLevels)] :
          bars = [f \in Fields |-> IF f = "close" THEN c ELSE Flat(60)]
    /\ universe = AllAssets
    /\ cell = NoCell
    /\ result = NoResult
    /\ fundamentals = CleanFundamentals
    /\ flight = {}
    /\ calls = <<>>
    /\ outputs = <<>>

\* result = run_pipeline(my_pipe, '2017-12-27', '2017-12-27')
RunEmpty ==
    Ran("none", "empty", Dec27, Dec27, RunPipeline(EmptyPipeline, Dec27, Dec27))

\* run_pipeline(make_pipeline(), '2017-11-27', '2017-12-27').head(10)
RunCloseOpen ==
    Ran("empty", "close-open", Nov27, Dec27, RunPipeline(CloseOpenPipeline, Nov27, Dec27))

\* result = run_pipeline(make_pipeline(), '2017-12-27', '2017-12-27')
RunMomentum ==
    Ran("close-open", "momentum", Dec27, Dec27, RunPipeline(MomentumPipeline, Dec27, Dec27))

NextMomentum == RunEmpty \/ RunCloseOpen \/ RunMomentum

SpecMomentum == InitMomentum /\ [][NextMomentum]_vars

\* the late-listing histories that are flat up to the last day, and change
\* on the last day only when they have every bar
StepSeries(levels) ==
    {s \in LateSeries(levels) :
        /\ \A d, e \in Days : (d < NDays /\ e < NDays /\ s[d] # NaN /\ s[e] # NaN)
                                => s[d] = s[e]
        /\ s[1] = NaN => \A d \in Days : d > 1 => s[d] = s[NDays]}

\* a volume column that is the same every day, asset by asset
FlatPerAsset(x) == [a \in Assets |-> [d \in Days |-> x[a]]]

\* Lessons 6 and 7 run over close prices and volumes
InitLiquidity ==
    /\ \E c \in [Assets -> StepSeries(PriceLevels)], v \in [Assets -> VolumeLevels] :
          bars = [f \in Fields |-> IF f = "close" THEN c
                                   ELSE IF f = "volume" THEN FlatPerAsset(v)
                                   ELSE Flat(60)]
    /\ universe = AllAssets
    /\ cell = NoCell
    /\ result = NoResult
    /\ fundamentals = CleanFundamentals
    /\ flight = {}
    /\ calls = <<>>
    /\ outputs = <<>>

\* Lesson 6: result = run_pipeline(make_pipeline(), '2017-12-27', '2017-12-27')
RunLesson6 ==
    Ran("none", "lesson6", Dec27, Dec27, RunPipeline(L6_make_pipeline, Dec27, Dec27))

\* Lesson 7: len(run_pipeline(make_pipeline(), '2017-12-27', '2017-12-27')) is
\* printed and a second, equal run is displayed
RunMasked ==
    Ran("lesson6", "masked", Dec27, Dec27, RunPipeline(L7_masked_make_pipeline, Dec27, Dec27))

NextLiquidity == RunLesson6 \/ RunMasked

SpecLiquidity == InitLiquidity /\ [][NextLiquidity]_vars

\* the layered-mask cell of Lesson 7 runs over assets that differ in close,
\* open and volume, each the same every day; an asset may lack a price
InitFunnel ==
    /\ \E c \in [Assets -> PriceLevels \cup {NaN}], o \in [Assets -> PriceLevels \cup {NaN}],
          v \in [Assets -> VolumeLevels] :
          bars = [f \in Fields |-> IF f = "close" THEN FlatPerAsset(c)
                                   ELSE IF f = "open" THEN FlatPerAsset(o)
                                   ELSE IF f = "volume" THEN FlatPerAsset(v)
                                   ELSE Flat(60)]
    /\ universe = AllAssets
    /\ cell = NoCell
    /\ result = NoResult
    /\ fundamentals = CleanFundamentals
    /\ flight = {}
    /\ calls = <<>>
    /\ outputs = <<>>

\* Lesson 7: result = run_pipeline(make_pipeline(), '2017-12-27', '2017-12-27')
RunLayered ==
    Ran("none", "layered", Dec27, Dec27, RunPipeline(L7_layered_make_pipeline, Dec27, Dec27))

NextFunnel == RunLayered

SpecFunnel == InitFunnel /\ [][NextFunnel]_vars

\* Lesson 11 runs over close prices and the membership of QTradableStocksUS
InitUniverse ==
    /\ \E c \in [Assets -> StepSeries(PriceLevels)] :
          bars = [f \in Fields |-> IF f = "close" THEN c ELSE Flat(60)]
    /\ universe \in [Assets -> BOOLEAN]
    /\ cell = NoCell
    /\ result = NoResult
    /\ fundamentals = CleanFundamentals
    /\ flight = {}
    /\ calls = <<>>
    /\ outputs = <<>>

\* Lesson 11: run_pipeline(make_pipeline(), '2017-12-27', '2017-12-27').head(10)
RunUniverse ==
    Ran("none", "universe", Dec27, Dec27,
        RunPipeline(L11_universe_make_pipeline, Dec27, Dec27))

\* Lesson 11: result = run_pipeline(make_pipeline(), '2017-12-27', '2017-12-27')
RunFinal ==
    Ran("universe", "final", Dec27, Dec27, RunPipeline(L11_make_pipeline, Dec27, Dec27))

NextUniverse == RunUniverse \/ RunFinal

SpecUniverse == InitUniverse /\ [][NextUniverse]_vars

---------------------------------------------------------------------------
(* Cells that call run_pipeline twice, statement by statement.             *)

\* Lesson 7's masked-factor cell and Lesson 11's hand-built base universe
\* run over volumes that differ by asset and fundamentals in which some
\* assets are odd in one entry
InitSession ==
    /\ \E v \in [Assets -> VolumeLevels] :
          bars = [f \in Fields |-> IF f = "volume" THEN FlatPerAsset(v) ELSE Flat(60)]
    /\ \E odd \in Odd, who \in [Assets -> BOOLEAN] :
          fundamentals = [a \in Assets |-> IF who[a] THEN odd ELSE Clean]
    /\ universe = AllAssets
    /\ cell = NoCell
    /\ result = NoResult
    /\ flight = {}
    /\ calls = <<>>
    /\ outputs = <<>>

\* the pipeline a cell's make_pipeline builds and the Fundamentals fields
\* it reads
PipelineBuilt(name) ==
    IF name = "base" THEN L11_base_make_pipeline ELSE L7_masked_make_pipeline

FieldsRead(name) == IF name = "base" THEN TradeableStocksFields ELSE {}

\* how many run_pipeline calls of the cell have returned: each shows the
\* "Pipeline Execution Time" banner
Returned(name) ==
    Cardinality({i \in 1..Len(outputs) :
                    outputs[i].cell = name /\ outputs[i].kind = "banner"})

\* a cell that issues its k-th call as soon as the cell before it is done,
\* without waiting for its own earlier call
CallWithoutWaiting(prev, name, k) ==
    /\ cell.name = prev
    /\ Returned(name) < k
    /\ \A r \in flight : ~(r.name = name /\ r.call = k)
    /\ flight' = flight \cup {[name |-> name, call |-> k]}
    /\ outputs' = IF k = 1 /\ flight = {} THEN <<>> ELSE outputs
    /\ UNCHANGED <<bars, universe, fundamentals, cell, result, calls>>

\* the k-th statement of the cell calls run_pipeline: the statements of a
\* cell execute one after the other, each when the one before it is done,
\* and the call blocks the cell until its table comes back
Call(prev, name, k) ==
    /\ cell.name = prev
    /\ Returned(name) = k - 1
    /\ \A r \in flight : r.name # name
    /\ flight' = flight \cup {[name |-> name, call |-> k]}
    /\ outputs' = IF k = 1 THEN <<>> ELSE outputs
    /\ UNCHANGED <<bars, universe, fundamentals, cell, result, calls>>

\* a run that hands back no table once a warning has been emitted
DeliveredUnlessWarned(table, warned) == IF warned THEN NoResult ELSE table

\* what run_pipeline hands back when the engine has computed the table: a
\* warning goes to stderr and leaves the table alone
Delivered(table, warned) == table

\* whether a run of the cell's pipeline can emit the deprecation warning:
\* one is shown for a deprecated field the pipeline reads, not on every run
MayWarn(name) == IF FieldsRead(name) \cap DeprecatedFields # {} THEN BOOLEAN ELSE {FALSE}

\* what a returning call adds to the cell's outputs: the warning, if one is
\* emitted, and the execution-time banner
RunOutputs(name, warned) ==
    (IF warned THEN <<[cell |-> name, kind |-> "stderr"]>> ELSE <<>>)
        \o <<[cell |-> name, kind |-> "banner"]>>

\* print('Number of securities that passed the filter: %d' %
\*       len(run_pipeline(make_pipeline(), '2017-12-27', '2017-12-27')))
\* the first call returns and the length of its table is printed
PrintLen(name) ==
    \E r \in flight : \E warned \in MayWarn(name) :
        /\ r.name = name /\ r.call = 1
        /\ LET table == Delivered(RunPipeline(PipelineBuilt(name), Dec27, Dec27), warned)
           IN  outputs' = outputs \o RunOutputs(name, warned)
                              \o <<[cell |-> name, kind |-> "stdout",
                                    shown |-> Cardinality(table.rows)]>>
        /\ flight' = flight \ {r}
        /\ UNCHANGED <<bars, universe, fundamentals, cell, result, calls>>

\* run_pipeline(make_pipeline(), '2017-12-27', '2017-12-27').head(20)
\* the second call returns, its table is displayed and the cell is done
ShowHead(name) ==
    \E r \in flight : \E warned \in MayWarn(name) :
        /\ r.name = name /\ r.call = 2
        /\ LET table == Delivered(RunPipeline(PipelineBuilt(name), Dec27, Dec27), warned)
           IN  /\ outputs' = outputs \o RunOutputs(name, warned)
                                 \o <<[cell |-> name, kind |-> "table", shown |-> table.rows]>>
               /\ result' = table
        /\ cell' = [name |-> name, start |-> Dec27, end |-> Dec27]
        /\ flight' = flight \ {r}
        /\ UNCHANGED <<bars, universe, fundamentals, calls>>

\* the two statements of Lesson 7's masked-factor cell
CallMaskedLen == Call("none", "masked", 1)

PrintMaskedLen == PrintLen("masked")

CallMaskedHead == Call("none", "masked", 2)

ShowMaskedHead == ShowHead("masked")

\* the two statements of Lesson 11's base-universe cell
CallBaseLen == Call("masked", "base", 1)

PrintBaseLen == PrintLen("base")

CallBaseHead == Call("masked", "base", 2)

ShowBaseHead == ShowHead("base")

NextSession ==
    \/ CallMaskedLen \/ PrintMaskedLen \/ CallMaskedHead \/ ShowMaskedHead
    \/ CallBaseLen \/ PrintBaseLen \/ CallBaseHead \/ ShowBaseHead

SpecSession == InitSession /\ [][NextSession]_vars

---------------------------------------------------------------------------
(* Claims about the table run_pipeline returns and the momentum cell,      *)
(* checked under SpecMomentum.                                             *)

\* the names the cell's make_pipeline gives in its columns mapping
ColumnsGiven(name) ==
    IF name = "momentum" THEN {"std dev", "thirty day momentum", "sixty day momentum"}
    ELSE IF name = "close-open" THEN {"close-open diff"}
    ELSE {}

\* C1: the table a run returns is keyed by (date, asset) pairs whose dates
\* all lie inside [start, end], and its columns are exactly the names of the
\* pipeline's columns mapping, every row holding one value per column.
C1_TableKeysAndColumns ==
    cell.name # "none" =>
        /\ \A r \in result.rows : r[1] >= cell.start /\ r[1] <= cell.end /\ r[2] \in Assets
        /\ result.columns = ColumnsGiven(cell.name)
        /\ \A r \in result.rows : DOMAIN result.value[r] = ColumnsGiven(cell.name)

\* a multi-day run returned rows of both of its days, in its one column
C1_Witness ==
    /\ cell.name = "close-open"
    /\ cell.start < cell.end
    /\ \E r \in result.rows : r[1] = cell.start
    /\ \E r \in result.rows : r[1] = cell.end
    /\ result.columns = {"close-open diff"}

\* the most recent close of asset a on day today, and its close n days ago
RecentClose(a, today) == Bar("close", a, today - 1)

CloseDaysAgo(a, today, n) == Bar("close", a, today - n)

\* v is the quotient x / y of two raw values, NaN when either is missing
IsQuotient(v, x, y) ==
    IF x = NaN \/ y = NaN THEN IsNaN(v)
    ELSE v[2] > 0 /\ v[1] * y = x * v[2]

\* C8: Momentum with window_length n gives every asset its most recent
\* close divided by its close of n days ago, and the momentum columns of the
\* table hold these values.
C8_MomentumIsRecentOverNDaysAgo ==
    cell.name = "momentum" =>
        /\ \A n \in {ShortWindow, LongWindow} : \A a \in Assets :
              IsQuotient(Momentum(n, cell.end)[a],
                         RecentClose(a, cell.end), CloseDaysAgo(a, cell.end, n))
        /\ \A r \in result.rows :
              /\ IsQuotient(result.value[r]["thirty day momentum"],
                            RecentClose(r[2], r[1]), CloseDaysAgo(r[2], r[1], ShortWindow))
              /\ IsQuotient(result.value[r]["sixty day momentum"],
                            RecentClose(r[2], r[1]), CloseDaysAgo(r[2], r[1], LongWindow))

\* the momentum run returned a row whose 60-day momentum is a rise while its
\* 30-day momentum is not, and an asset lacks the close of 60 days ago only
C8_Witness ==
    /\ cell.name = "momentum"
    /\ \E r \in result.rows :
          /\ FLess(<<1, 1>>, result.value[r]["sixty day momentum"])
          /\ FEq(result.value[r]["thirty day momentum"], <<1, 1>>)
    /\ \E a \in Assets : IsNaN(Momentum(LongWindow, cell.end)[a])
                         /\ ~IsNaN(Momentum(ShortWindow, cell.end)[a])

\* a float that is a positive number
Positive(v) == v[1] > 0

---------------------------------------------------------------------------
(* Claims about screens and masks, checked under SpecLiquidity.            *)

\* C2: the Lesson 6 run emits the row of an asset if and only if the screen,
\* tradeable_filter, is True for it that day; every emitted row therefore
\* shows a close above 90.
C2_RowsAreExactlyScreenTrue ==
    cell.name = "lesson6" =>
        /\ \A a \in Assets :
              <<cell.end, a>> \in result.rows <=> tradeable_filter(cell.end)[a]
        /\ \A r \in result.rows : r[1] = cell.end
        /\ \A r \in result.rows : FLess(<<PriceThreshold, 1>>, result.value[r]["close"])

\* the screen passed an asset and dropped another whose close is above 90
C2_Witness ==
    /\ cell.name = "lesson6"
    /\ result.rows # {}
    /\ \E a \in Assets : above_90(cell.end)[a] /\ <<cell.end, a>> \notin result.rows

\* what percent_difference is when the averages are built without a mask
UnmaskedPercentDifference(today) ==
    Over(Minus(L7_mean_close_unmasked(ShortWindow, today),
               L7_mean_close_unmasked(LongWindow, today)),
         L7_mean_close_unmasked(LongWindow, today))

\* C3: for an asset failing the mask, the masked averages and the percent
\* difference built from them are NaN; for an asset passing it they equal
\* the values of the same terms built without a mask.
C3_MaskedFactorOnlyOverMask ==
    cell.name = "masked" =>
        LET today == cell.end
            mask == L7_high_dollar_volume(today)
            masked == [n \in {ShortWindow, LongWindow} |-> L7_mean_close(n, today)]
            unmasked == [n \in {ShortWindow, LongWindow} |-> L7_mean_close_unmasked(n, today)]
            difference == UnmaskedPercentDifference(today)
        IN  \A a \in Assets :
                LET shown == result.value[<<today, a>>]["percent difference"]
                IN  /\ \A n \in {ShortWindow, LongWindow} :
                          IF mask[a] THEN masked[n][a] = unmasked[n][a]
                          ELSE IsNaN(masked[n][a])
                    /\ IF mask[a] THEN shown = difference[a] ELSE IsNaN(shown)

\* an asset failing the mask shows NaN although its unmasked percent
\* difference is a number, and an asset passing it shows a nonzero number
C3_Witness ==
    /\ cell.name = "masked"
    /\ \E a \in Assets :
          /\ ~L7_high_dollar_volume(cell.end)[a]
          /\ ~IsNaN(UnmaskedPercentDifference(cell.end)[a])
          /\ IsNaN(result.value[<<cell.end, a>>]["percent difference"])
    /\ \E a \in Assets :
          /\ L7_high_dollar_volume(cell.end)[a]
          /\ ~IsNaN(result.value[<<cell.end, a>>]["percent difference"])
          /\ result.value[<<cell.end, a>>]["percent difference"][1] # 0

\* C4: the masked-factor run outputs no row for a security that fails
\* high_dollar_volume, so the printed length counts only securities whose
\* average dollar volume is above the threshold.
C4_NoRowFailsHighDollarVolume ==
    cell.name = "masked" =>
        \A r \in result.rows : L7_high_dollar_volume(r[1])[r[2]]

---------------------------------------------------------------------------
(* Claims about layered masks, checked under SpecFunnel.                   *)

\* the assets a filter is True for
Passing(f) == {a \in Assets : f[a]}

\* C7: in the layered-mask pipeline high_close_price True implies
\* top_open_price True, which implies high_dollar_volume True, at most N
\* assets (50 in the notebook) satisfy top_open_price, and every row the
\* run emits lies inside all three.
C7_AssetFunnel ==
    cell.name = "layered" =>
        LET today == cell.end
            volume == Passing(L7_top_dollar_volume(today))
            open == Passing(top_open_price(today))
            close == Passing(high_close_price(today))
        IN  /\ close \subseteq open
            /\ open \subseteq volume
            /\ Cardinality(open) <= TopN
            /\ \A r \in result.rows : r[1] = today /\ r[2] \in open /\ r[2] \in volume

\* more than N assets with an open price pass high_dollar_volume, so the
\* cap of top_open_price binds, and each layer of the funnel drops an asset
C7_Witness ==
    /\ cell.name = "layered"
    /\ result.rows # {}
    /\ Cardinality({a \in Passing(L7_top_dollar_volume(cell.end)) :
                       ~IsNaN(Latest("open", cell.end)[a])}) > TopN
    /\ Cardinality(Passing(top_open_price(cell.end))) = TopN
    /\ Passing(high_close_price(cell.end)) # Passing(top_open_price(cell.end))

---------------------------------------------------------------------------
(* Claims about the final pipeline of Lesson 11, checked under             *)
(* SpecUniverse.                                                           *)

\* C6: every security the final pipeline outputs satisfies base_universe
\* that day; top and bottom, called without a mask, never select an asset
\* outside base_universe, also when it holds for fewer than N assets.
C6_OutputsInsideBaseUniverse ==
    cell.name = "final" =>
        /\ \A r \in result.rows : base_universe[r[2]]
        /\ Passing(shorts(cell.end)) \subseteq Passing(base_universe)
        /\ Passing(longs(cell.end)) \subseteq Passing(base_universe)

\* base_universe holds for fewer than N assets, one of them is output, and
\* an asset outside it has close prices every day
C6_Witness ==
    /\ cell.name = "final"
    /\ Cardinality(Passing(base_universe)) < TopN
    /\ result.rows # {}
    /\ \E a \in Assets :
          /\ ~base_universe[a]
          /\ \A n \in {ShortWindow, LongWindow} :
                ~IsNaN(SimpleMovingAverage("close", n, AllAssets, cell.end)[a])

\* the assets whose percent_difference is a number
Defined(today) == {a \in Assets : ~IsNaN(L11_percent_difference(today)[a])}

Smaller(x, y) == IF x < y THEN x ELSE y

\* C10: longs is True for the N (or, when fewer have a value, all)
\* base-universe assets with the least percent_difference and shorts for
\* those with the greatest: no asset with a defined value outside longs is
\* below an asset inside longs, none outside shorts is above one inside
\* shorts, and the longs and shorts columns of the table show these filters.
C10_LongsLeastShortsGreatest ==
    cell.name = "final" =>
        LET today == cell.end
            pd == L11_percent_difference(today)
            D == Defined(today)
            L == Passing(longs(today))
            S == Passing(shorts(today))
        IN  /\ L \subseteq D \cap Passing(base_universe)
            /\ S \subseteq D \cap Passing(base_universe)
            /\ Cardinality(L) = Smaller(TopN, Cardinality(D))
            /\ Cardinality(S) = Smaller(TopN, Cardinality(D))
            /\ \A a \in D \ L : \A b \in L : ~FLess(pd[a], pd[b])
            /\ \A a \in D \ S : \A b \in S : ~FLess(pd[b], pd[a])
            /\ \A r \in result.rows :
                  /\ result.value[r]["longs"] = (r[2] \in L)
                  /\ result.value[r]["shorts"] = (r[2] \in S)

\* more than N assets have a value, and an asset left out of longs is
\* strictly above an asset inside longs, one left out of shorts strictly
\* below an asset inside shorts
C10_Witness ==
    /\ cell.name = "final"
    /\ Cardinality(Defined(cell.end)) > TopN
    /\ \E a \in Defined(cell.end), b \in Assets :
          /\ ~longs(cell.end)[a] /\ longs(cell.end)[b]
          /\ FLess(L11_percent_difference(cell.end)[b], L11_percent_difference(cell.end)[a])
    /\ \E a \in Defined(cell.end), b \in Assets :
          /\ ~shorts(cell.end)[a] /\ shorts(cell.end)[b]
          /\ FLess(L11_percent_difference(cell.end)[a], L11_percent_difference(cell.end)[b])

\* the rows of the table dated d
RowsOf(d) == {r \in result.rows : r[1] = d}

\* C11: the final run of Lesson 11 yields exactly the two columns longs and
\* shorts, both boolean; every emitted row has at least one of them True;
\* and a day emits at most 2N rows (100 in the notebook), no more than the
\* assets longs passes plus the assets shorts passes, each at most N.
C11_TwoBooleanColumnsAtMostTwiceN ==
    cell.name = "final" =>
        LET L == Passing(longs(cell.end))
            S == Passing(shorts(cell.end))
        IN  /\ result.columns = {"longs", "shorts"}
            /\ \A r \in result.rows :
                  /\ DOMAIN result.value[r] = {"longs", "shorts"}
                  /\ result.value[r]["longs"] \in BOOLEAN
                  /\ result.value[r]["shorts"] \in BOOLEAN
                  /\ result.value[r]["longs"] \/ result.value[r]["shorts"]
            /\ \A d \in cell.start..cell.end :
                  /\ Cardinality(RowsOf(d)) <= 2 * TopN
                  /\ Cardinality(RowsOf(d)) <= Cardinality(L) + Cardinality(S)
            /\ Cardinality(L) <= TopN
            /\ Cardinality(S) <= TopN

\* more than N assets have a value, longs and shorts each pass N of them,
\* a row is True in one column only and another in both, so the day emits
\* fewer rows than the two filters pass together
C11_Witness ==
    /\ cell.name = "final"
    /\ Cardinality(Defined(cell.end)) > TopN
    /\ Cardinality(Passing(longs(cell.end))) = TopN
    /\ Cardinality(Passing(shorts(cell.end))) = TopN
    /\ \E r \in result.rows : result.value[r]["longs"] /\ ~result.value[r]["shorts"]
    /\ \E r \in result.rows : result.value[r]["longs"] /\ result.value[r]["shorts"]
    /\ Cardinality(RowsOf(cell.end)) < 2 * TopN

\* close histories of one asset: flat at 60, a rise or a fall on the last
\* day, a late listing at 120, no bar at all
CloseHistories ==
    {s \in StepSeries(PriceLevels) :
        /\ s[1] = NaN => s[NDays] \in {NaN, 120}
        /\ s[1] = 120 => s[NDays] = 60}

\* low histories of one asset: 60 every day, or from the second day on
LowHistories == {s \in LateSeries({60}) : s[NDays] # NaN}

\* the custom-factor cells of Lesson 7 run over close and low prices that
\* differ by asset; open is 60 and high is 120 throughout
InitEngine ==
    /\ \E c \in [Assets -> CloseHistories], l \in [Assets -> LowHistories] :
          bars = [f \in Fields |-> IF f = "close" THEN c
                                   ELSE IF f = "low" THEN l
                                   ELSE IF f = "high" THEN Flat(120)
                                   ELSE Flat(60)]
    /\ universe = AllAssets
    /\ cell = NoCell
    /\ result = NoResult
    /\ fundamentals = CleanFundamentals
    /\ flight = {}
    /\ calls = <<>>
    /\ outputs = <<>>

\* a cell calls run_pipeline(make_pipeline(), start, end) on a pipeline whose
\* one column is a ThirtyDayMeanDifference: the request is in flight until
\* the table comes back, and the cell makes the call once
Request(prev, name, column, factor, start, end) ==
    /\ cell.name = prev
    /\ \A r \in flight : r.name # name
    /\ flight' = flight \cup {[name |-> name, column |-> column, factor |-> factor,
                               start |-> start, end |-> end, outs |-> <<>>]}
    /\ calls' = <<>>
    /\ UNCHANGED <<bars, universe, fundamentals, cell, result, outputs>>

\* run_pipeline(make_pipeline(), '2017-11-27', '2017-12-27') of the
\* "close-open diff" cell
RequestCloseOpen ==
    Request("none", "close-open", "close-open diff", close_open_diff, Nov27, Dec27)

\* run_pipeline(make_pipeline(), '2017-11-27', '2017-12-27') of the
\* "high-low diff" cell
RequestHighLow ==
    Request("close-open", "high-low", "high-low diff", high_low_diff, Nov27, Dec27)

\* the engine calls compute(today, asset_ids, out, *inputs) for the next day
\* of a run in flight and keeps what compute wrote into out
ComputeDay ==
    \E r \in flight :
        /\ Cardinality(DOMAIN r.outs) < r.end - r.start + 1
        /\ LET today == Sessions(r.start, r.end)[Cardinality(DOMAIN r.outs) + 1]
               inputs == ComputeInputs(r.factor.inputs, r.factor.window_length, today, Assets)
               out == MeanDifferenceCompute(today, Assets, inputs[1], inputs[2])
           IN  /\ calls' = Append(calls, [today |-> today, asset_ids |-> AssetIds(Assets),
                                          inputs |-> inputs, out |-> out])
               /\ flight' = (flight \ {r}) \cup
                            {[r EXCEPT !.outs = [d \in DOMAIN r.outs \cup {today} |->
                                                    IF d = today THEN out ELSE r.outs[d]]]}
        /\ UNCHANGED <<bars, universe, fundamentals, cell, result, outputs>>

\* every day of the run is computed: run_pipeline returns the table, one row
\* per day and asset (the pipeline has no screen), and the cell is done
Respond ==
    \E r \in flight :
        /\ Cardinality(DOMAIN r.outs) = r.end - r.start + 1
        /\ result' = [columns |-> {r.column},
                      rows |-> (r.start..r.end) \X Assets,
                      value |-> [x \in (r.start..r.end) \X Assets |->
                                    [n \in {r.column} |-> r.outs[x[1]][x[2]]]]]
        /\ cell' = [name |-> r.name, start |-> r.start, end |-> r.end]
        /\ flight' = flight \ {r}
        /\ UNCHANGED <<bars, universe, fundamentals, calls, outputs>>

NextEngine == RequestCloseOpen \/ ComputeDay \/ Respond \/ RequestHighLow

SpecEngine == InitEngine /\ [][NextEngine]_vars

---------------------------------------------------------------------------
(* The multi-day run of the "close-open diff" cell while the data set      *)
(* revises the close of its last day.                                      *)

\* close histories of one asset whose last two bars agree
RevisedHistories == {s \in CloseHistories : s[NDays] # NaN /\ s[NDays - 1] = s[NDays]}

InitRevise ==
    /\ \E c \in [Assets -> RevisedHistories] :
          bars = [f \in Fields |-> IF f = "close" THEN c ELSE Flat(60)]
    /\ universe = AllAssets
    /\ cell = NoCell
    /\ result = NoResult
    /\ fundamentals = CleanFundamentals
    /\ flight = {}
    /\ calls = <<>>
    /\ outputs = <<>>

\* USEquityPricing.close serves another close for one asset's last bar
\* while the run is in flight
Revise ==
    \E a \in Assets, x \in PriceLevels :
        /\ flight # {}
        /\ bars["close"][a][NDays] # x
        /\ bars' = [bars EXCEPT !["close"][a][NDays] = x]
        /\ UNCHANGED <<universe, fundamentals, cell, result, flight, calls, outputs>>

NextRevise == RequestCloseOpen \/ ComputeDay \/ Revise \/ Respond

SpecRevise == InitRevise /\ [][NextRevise]_vars

---------------------------------------------------------------------------
(* Claims about custom factors, checked under SpecEngine.                  *)

\* the pipeline of the cell that ran last, as make_pipeline builds it
PipelineOf(name) == IF name = "high-low" THEN HighLowPipeline ELSE CloseOpenPipeline

\* C12: a CustomFactor of a pipeline has compute called once for every day
\* of the run's range, in increasing date order, each call with that day as
\* today; the table of the run from 2017-11-27 to 2017-12-27 has rows for
\* every day of the range, the first of them 2017-11-27, and the rows of a
\* day hold what the call for that day wrote into out.
C12_ComputeOncePerDayInOrder ==
    /\ \A i \in 1..Len(calls) : calls[i].today = Nov27 + i - 1
    /\ Len(calls) <= Dec27 - Nov27 + 1
    /\ \A r \in flight : DOMAIN r.outs = {calls[i].today : i \in 1..Len(calls)}
    /\ (cell.name \in {"close-open", "high-low"} /\ flight = {}) =>
          /\ {calls[i].today : i \in 1..Len(calls)} = cell.start..cell.end
          /\ {r[1] : r \in result.rows} = cell.start..cell.end
          /\ \A r \in result.rows : r[1] >= Nov27
          /\ \E r \in result.rows : r[1] = Nov27
          /\ \A i \in 1..Len(calls) : \A a \in Assets : \A n \in result.columns :
                result.value[<<calls[i].today, a>>][n] = calls[i].out[a]
          /\ result = RunPipeline(PipelineOf(cell.name), cell.start, cell.end)

\* the multi-day run returned after three compute calls, and for some asset
\* the value of the last day differs from the value of the days before it
C12_Witness ==
    /\ cell.name = "close-open"
    /\ flight = {}
    /\ Len(calls) = 3
    /\ \E a \in Assets : /\ calls[2].out[a] # calls[3].out[a]
                         /\ ~IsNaN(calls[1].out[a])
                         /\ ~IsNaN(calls[3].out[a])

\* the factor whose compute calls are in the log: that of the run in flight,
\* or of the cell that ran last
FactorLogged ==
    IF \E r \in flight : r.name = "high-low" THEN high_low_diff
    ELSE IF flight = {} /\ cell.name = "high-low" THEN high_low_diff
    ELSE close_open_diff

\* the elements of a sequence
Range(s) == {s[i] : i \in 1..Len(s)}

\* C13: every compute call receives one window array per entry of the
\* factor's inputs list, the k-th array holding the data of the k-th entry
\* (so the entries are bound to compute's parameters in list order), each
\* array with window_length rows and one column per asset; asset_ids and out
\* have as many entries as the arrays have columns, and out holds the mean of
\* the first array minus the second.
C13_ComputeReceivesWindowArrays ==
    \A i \in 1..Len(calls) :
        LET c == calls[i]
            f == FactorLogged
            M == f.window_length
            N == Len(c.asset_ids)
        IN  /\ Len(c.inputs) = Len(f.inputs)
            /\ \A k \in 1..Len(f.inputs) :
                  /\ Len(c.inputs[k]) = M
                  /\ \A j \in 1..M :
                        /\ DOMAIN c.inputs[k][j] = Range(c.asset_ids)
                        /\ Cardinality(DOMAIN c.inputs[k][j]) = N
                        /\ \A a \in Range(c.asset_ids) :
                              c.inputs[k][j][a] = Bar(f.inputs[k], a, c.today - M - 1 + j)
            /\ DOMAIN c.out = Range(c.asset_ids)
            /\ Cardinality(DOMAIN c.out) = N
            /\ N = NAssets
            /\ \A a \in Range(c.asset_ids) :
                  c.out[a] = NanMean([j \in 1..M |->
                                IF c.inputs[1][j][a] = NaN \/ c.inputs[2][j][a] = NaN THEN NaN
                                ELSE c.inputs[1][j][a] - c.inputs[2][j][a]])

\* a compute call of the high-low run received two arrays that differ and
\* wrote a value that is not zero, and a call wrote NaN for an asset whose
\* window holds no pair of prices
C13_Witness ==
    /\ \E r \in flight : r.name = "high-low"
    /\ Len(calls) >= 2
    /\ calls[2].inputs[1] # calls[2].inputs[2]
    /\ \E a \in Assets : ~IsNaN(calls[2].out[a]) /\ calls[2].out[a][1] > 0
    /\ \E a \in Assets : IsNaN(calls[1].out[a])

\* the days of the window of day d on which asset a has both prices
BothDefined(first, second, a, d, M) ==
    {j \in (d - M)..(d - 1) : Bar(first, a, j) # NaN /\ Bar(second, a, j) # NaN}

RECURSIVE SumOfDifferences(_, _, _, _)
SumOfDifferences(first, second, a, days) ==
    IF days = {} THEN 0
    ELSE LET j == CHOOSE x \in days : TRUE
         IN  Bar(first, a, j) - Bar(second, a, j)
             + SumOfDifferences(first, second, a, days \ {j})

\* v is the mean of first - second over the days of the window that have
\* both prices, NaN when no day has
IsMeanDifference(v, first, second, a, d, M) ==
    LET days == BothDefined(first, second, a, d, M)
    IN  IF days = {} THEN IsNaN(v)
        ELSE /\ v[2] > 0
             /\ v[1] * Cardinality(days) = v[2] * SumOfDifferences(first, second, a, days)

\* C14: ThirtyDayMeanDifference() uses inputs [close, open] and
\* window_length 30; ThirtyDayMeanDifference(inputs=[high, low]) uses the
\* given inputs and keeps window_length 30; in both runs the value of an
\* asset is the mean over the window of the first input minus the second,
\* over the days that have both.
C14_DefaultsAndOverride ==
    /\ close_open_diff = [inputs |-> <<"close", "open">>, window_length |-> ShortWindow]
    /\ high_low_diff = [inputs |-> <<"high", "low">>, window_length |-> ShortWindow]
    /\ (cell.name = "close-open" /\ flight = {}) =>
          \A r \in result.rows :
              IsMeanDifference(result.value[r]["close-open diff"],
                               "close", "open", r[2], r[1], ShortWindow)
    /\ (cell.name = "high-low" /\ flight = {}) =>
          \A r \in result.rows :
              IsMeanDifference(result.value[r]["high-low diff"],
                               "high", "low", r[2], r[1], ShortWindow)

\* the high-low run returned a value that differs from the close-open
\* value of the same day and asset, and a value that is the mean over the
\* one day of its window that has both prices
C14_Witness ==
    /\ cell.name = "high-low"
    /\ flight = {}
    /\ \E r \in result.rows :
          /\ ~IsNaN(result.value[r]["high-low diff"])
          /\ result.value[r]["high-low diff"] #
                ThirtyDayMeanDifference(close_open_diff.inputs,
                                        close_open_diff.window_length, r[1])[r[2]]
    /\ \E r \in result.rows :
          /\ ~IsNaN(result.value[r]["high-low diff"])
          /\ r[1] = Dec27 - 1
          /\ Cardinality(BothDefined("high", "low", r[2], r[1], ShortWindow)) = 1

---------------------------------------------------------------------------
(* Claims about combined filters, checked under SpecLiquidity.             *)

\* C15: tradeable_filter = high_dollar_volume & above_90 is True for a
\* security exactly when both operands are True for it and False in every
\* other case, and the rows of the screened run are these securities; the
\* filter high_dollar_volume | above_90 is True exactly when at least one
\* operand is True.
C15_AndOrOfFilters ==
    cell.name = "lesson6" =>
        LET today == cell.end
            volume == L6_high_dollar_volume(today)
            price == above_90(today)
            both == tradeable_filter(today)
            either == Or(volume, price)
        IN  \A a \in Assets :
                /\ both[a] \in BOOLEAN /\ either[a] \in BOOLEAN
                /\ both[a] = TRUE <=> (volume[a] = TRUE /\ price[a] = TRUE)
                /\ both[a] = FALSE <=> (volume[a] = FALSE \/ price[a] = FALSE)
                /\ either[a] = TRUE <=> (volume[a] = TRUE \/ price[a] = TRUE)
                /\ either[a] = FALSE <=> (volume[a] = FALSE /\ price[a] = FALSE)
                /\ <<today, a>> \in result.rows <=> both[a] = TRUE

\* one security passes both operands, one only high_dollar_volume and one
\* only above_90
C15_Witness ==
    /\ cell.name = "lesson6"
    /\ \E a \in Assets : L6_high_dollar_volume(cell.end)[a] /\ above_90(cell.end)[a]
    /\ \E a \in Assets : L6_high_dollar_volume(cell.end)[a] /\ ~above_90(cell.end)[a]
    /\ \E a \in Assets : ~L6_high_dollar_volume(cell.end)[a] /\ above_90(cell.end)[a]

---------------------------------------------------------------------------
(* Claims about the calls of a cell, checked under SpecSession.            *)

NotWarning(o) == o.kind # "stderr"

\* the kinds of the cell's outputs, warnings left out
KindsShown ==
    LET shown == SelectSeq(outputs, NotWarning)
    IN  [i \in 1..Len(shown) |-> shown[i].kind]

\* C16: run_pipeline is a synchronous request and response: at most one run
\* is in flight at any time, the second call of a cell is in flight only
\* after its first call has returned, and a cell that calls run_pipeline for
\* len and again for head has made exactly two runs when it is done, the
\* first returning before the length is printed and the second after it:
\* the outputs of a cell are, in this order, a banner, the printed length, a
\* banner and the table.
C16_OneRunInFlight ==
    /\ Cardinality(flight) <= 1
    /\ \A r \in flight : Returned(r.name) = r.call - 1
    /\ \A name \in {"masked", "base"} : Returned(name) <= 2
    /\ Len(KindsShown) <= 4
    /\ KindsShown = SubSeq(<<"banner", "stdout", "banner", "table">>, 1, Len(KindsShown))
    /\ \A i \in 1..Len(outputs) : outputs[i].cell = outputs[1].cell
    /\ (outputs # <<>> /\ outputs[1].cell = cell.name) =>
          /\ flight = {}
          /\ Returned(cell.name) = 2
          /\ KindsShown = <<"banner", "stdout", "banner", "table">>

\* the second call of the base-universe cell is in flight, the outputs of
\* its first call are shown, and the cell before it made its two runs
C16_Witness ==
    /\ \E r \in flight : r.name = "base" /\ r.call = 2
    /\ cell.name = "masked"
    /\ Returned("base") = 1
    /\ \E i \in 1..Len(outputs) : outputs[i].kind = "stdout" /\ outputs[i].shown > 0

\* the positions of the warnings among the outputs
Warnings == {i \in 1..Len(outputs) : outputs[i].kind = "stderr"}

---------------------------------------------------------------------------
(* Claims about masking before ranking, checked under SpecFunnel.          *)

\* top_open_price built without the mask and filtered afterwards:
\* USEquityPricing.open.latest.top(50) & high_dollar_volume
top_open_price_filtered_after(today) ==
    And(top_open_price_unmasked(today), L7_top_dollar_volume(today))

\* the assets that pass high_dollar_volume and have an open price
Eligible(today) ==
    {a \in Passing(L7_top_dollar_volume(today)) : ~IsNaN(Latest("open", today)[a])}

\* C18: masking before ranking differs from filtering after it.  The masked
\* top(N, mask=high_dollar_volume) selects only assets that pass the mask
\* and have an open price, contains every asset of the unmasked top(N) that
\* passes high_dollar_volume, and selects exactly N assets whenever at
\* least N assets pass the mask with an open price (all of them when fewer
\* do); the unmasked top filtered afterwards never selects more.
C18_MaskBeforeRanking ==
    cell.name = "layered" =>
        LET today == cell.end
            masked == Passing(top_open_price(today))
            after == Passing(top_open_price_filtered_after(today))
            eligible == Eligible(today)
        IN  /\ masked \subseteq eligible
            /\ after \subseteq masked
            /\ Cardinality(eligible) >= TopN => Cardinality(masked) = TopN
            /\ Cardinality(eligible) < TopN => masked = eligible

\* at least N assets pass the mask with an open price and the masked top
\* selects N of them, while an asset outside the mask has one of the N
\* highest open prices, so the top filtered afterwards selects fewer than N
C18_Witness ==
    /\ cell.name = "layered"
    /\ Cardinality(Eligible(cell.end)) >= TopN
    /\ Cardinality(Passing(top_open_price(cell.end))) = TopN
    /\ Cardinality(Passing(top_open_price_filtered_after(cell.end))) < TopN
    /\ \E a \in Passing(top_open_price_unmasked(cell.end)) :
          ~L7_top_dollar_volume(cell.end)[a]

---------------------------------------------------------------------------
(* Claims about the data a row depends on, checked under SpecRevise.       *)

\* what compute writes for day `today` of the "close-open diff" run over
\* the data as it is now
Recomputed(today) ==
    LET inputs == ComputeInputs(close_open_diff.inputs, close_open_diff.window_length,
                                today, Assets)
    IN  MeanDifferenceCompute(today, Assets, inputs[1], inputs[2])

\* C19: the rows of a day d depend only on the data of the days up to d.
\* In the multi-day run, whatever the last day's close is changed to after
\* the rows of an earlier day were computed, those rows are the rows a run
\* over the changed data computes: the out of every compute call for a day
\* before the changed one, and the rows of such a day in the returned
\* table, equal the values computed afresh from the data as it is now.
C19_RowsIgnoreLaterDays ==
    /\ \A i \in 1..Len(calls) :
          calls[i].today < NDays => calls[i].out = Recomputed(calls[i].today)
    /\ cell.name = "close-open" =>
          LET fresh == RunPipeline(CloseOpenPipeline, Nov27, Dec27)
          IN  \A r \in result.rows : \A n \in result.columns :
                  r[1] < NDays =>
                      /\ r \in fresh.rows
                      /\ result.value[r][n] = fresh.value[r][n]
                      /\ result.value[r][n] = Recomputed(r[1])[r[2]]

\* the run returned its three days of rows, the close of the last day was
\* changed after the last compute call, which changes the value of a row of
\* 2017-12-27, and a row of 2017-11-27 holds a number
C19_Witness ==
    /\ cell.name = "close-open"
    /\ Len(calls) = 3
    /\ \E a \in Assets : calls[3].out[a] # Recomputed(Dec27)[a]
    /\ \E a \in Assets : ~IsNaN(result.value[<<Nov27, a>>]["close-open diff"])
                         /\ ~IsNaN(result.value[<<Dec27, a>>]["close-open diff"])

====
